---- MODULE Spec2Model ----
(***************************************************************************)
(* Model of the FGMRES reverse-communication driver of sparse_dot_mkl      *)
(* (sparse_dot_mkl/solvers/_fgmres.py).                                    *)
(*                                                                         *)
(* The wrappers dfgmres_init / dfgmres_check / dfgmres / dfgmres_get, the  *)
(* class FGMRESIterativeSparseSolver and the entry point fgmres are        *)
(* translated from _fgmres.py.  The base class MKLIterativeSparseSolver    *)
(* (sparse_dot_mkl/solvers/_iss.py: construction, the context manager and  *)
(* the iterator protocol) is modelled from the written specification.      *)
(* The native MKL routines are external: the status / request code of      *)
(* each call is a nondeterministic choice over the documented codes.       *)
(*                                                                         *)
(* Python None is the empty sequence; a value v that is "not None" is      *)
(* <<v>> where the distinction matters (final_code, M, callback).          *)
(* 0-based array slot i of ipar/dpar/tmp/x is element i+1 of the sequence. *)
(***************************************************************************)
EXTENDS Integers, Sequences, FiniteSets, TLC

VARIABLES
    pc,             \* position of the fgmres call
    M,              \* fgmres argument M (None or an object)
    callback,       \* fgmres argument callback
    callback_type,  \* fgmres argument callback_type
    max_iter,       \* fgmres argument maxiter -> solver.max_iter
    r_tol,          \* fgmres argument tol     -> solver.r_tol
    a_tol,          \* fgmres argument atol    -> solver.a_tol
    MKL_DEBUG,      \* global debug flag of the MKL interface
    n,              \* problem dimension
    A,              \* the matrix, A[i][j], n x n
    instance,       \* TRUE once a FGMRESIterativeSparseSolver exists
    x,              \* solver.x
    ipar,           \* solver.ipar
    dpar,           \* solver.dpar
    tmp,            \* solver.tmp
    current_iter,   \* solver.current_iter
    final_code,     \* solver.final_code (None or <<code>>)
    last_status,    \* native status of the most recent step call (None before)
    outcome,        \* terminal state of the driver state machine
    result,         \* value fgmres returned: <<x, final_code>>, None before
    tmp0,           \* multiply specification: tmp before the first update_tmp
    mv_calls,       \* multiply specification: number of update_tmp calls applied
    trace           \* history: the native calls, warnings and context exit, in order

vars == << pc, M, callback, callback_type, max_iter, r_tol, a_tol, MKL_DEBUG,
           n, A, instance, x, ipar, dpar, tmp, current_iter, final_code,
           last_status, outcome, result, tmp0, mv_calls, trace >>

(* ------------------------------ bounds -------------------------------- *)
MaxIter == 2        \* largest maxiter argument explored
MaxN    == 2        \* largest problem dimension explored
MaxOff  == 3        \* largest 1-based workspace offset the native step hands out

(* ----------------------------- constants ------------------------------ *)
IparSize == 128     \* length of ipar
DparSize == 128     \* length of dpar

None == << >>
Some(v) == << v >>

\* one entry of the history: operation, status / count, workspace offsets
Ev(op, a, b, c) == [op |-> op, a |-> a, b |-> b, c |-> c]

Zeros(len) == [i \in 1..len |-> 0]

(* ------------------------ problem data (inputs) ----------------------- *)
\* diag(1, 2, ..., n)
DiagMatrix(nn) == [i \in 1..nn |-> [j \in 1..nn |-> IF i = j THEN i ELSE 0]]
\* upper triangular matrix of ones
UpperMatrix(nn) == [i \in 1..nn |-> [j \in 1..nn |-> IF j >= i THEN 1 ELSE 0]]
Matrices(nn) == {DiagMatrix(nn), UpperMatrix(nn)}

(* ------------------------- status code sets --------------------------- *)
InitStatuses  == {0, -10000, -7}
CheckStatuses == {0, -1100, -1001, -1011, -7}
StepStatuses  == {0, 1, 2, 3, -1, -10, -11, -12, -13}
GetStatuses   == {0, -10000, -12, -7}

(* ------------------------------ wrappers ------------------------------ *)
\* tmp_size computed by dfgmres_init
TmpSize(nn) == nn * (2 * nn + 1) + ((nn * (nn + 9)) \div 2) + 1

\* dfgmres_init: outcome for a native status
dfgmres_init(status) ==
    IF status = -10000
    THEN [raise |-> TRUE, msg |-> "Failed to complete task", code |-> status]
    ELSE IF status # 0
    THEN [raise |-> TRUE, msg |-> "Unknown error", code |-> status]
    ELSE [raise |-> FALSE, msg |-> "", code |-> status]

\* dfgmres_check raising on the two warning statuses as well
dfgmres_check_raises_on_warnings(status) ==
    IF status = -1100 \/ status = -1001 \/ status = -1011
    THEN [raise |-> TRUE, warn |-> FALSE, msg |-> "operation failed", code |-> status]
    ELSE [raise |-> FALSE, warn |-> FALSE, msg |-> "", code |-> status]

\* dfgmres_check that never raises
dfgmres_check_never_raises(status) ==
    IF status = -1001 \/ status = -1011
    THEN [raise |-> FALSE, warn |-> TRUE, msg |-> "raised warnings", code |-> status]
    ELSE [raise |-> FALSE, warn |-> FALSE, msg |-> "", code |-> status]

\* dfgmres_check: outcome for a native status
dfgmres_check(status) ==
    IF status = -1100
    THEN [raise |-> TRUE, warn |-> FALSE, msg |-> "operation failed", code |-> status]
    ELSE IF status = -1001 \/ status = -1011
    THEN [raise |-> FALSE, warn |-> TRUE, msg |-> "raised warnings", code |-> status]
    ELSE [raise |-> FALSE, warn |-> FALSE, msg |-> "", code |-> status]

\* dfgmres without the exemption of status -1
dfgmres_raises_on_minus_one(status) ==
    IF status = -10
    THEN [raise |-> TRUE, msg |-> "divide by zero", code |-> status]
    ELSE IF status = -11
    THEN [raise |-> TRUE, msg |-> "Infinite cycle", code |-> status]
    ELSE IF status = -12
    THEN [raise |-> TRUE, msg |-> "errors in the method parameters", code |-> status]
    ELSE IF status < 0
    THEN [raise |-> TRUE, msg |-> "Unknown error", code |-> status]
    ELSE [raise |-> FALSE, msg |-> "", code |-> status]

\* dfgmres: outcome for a native status
dfgmres(status) ==
    IF status = -1
    THEN [raise |-> FALSE, msg |-> "", code |-> status]
    ELSE IF status = -10
    THEN [raise |-> TRUE, msg |-> "divide by zero", code |-> status]
    ELSE IF status = -11
    THEN [raise |-> TRUE, msg |-> "Infinite cycle", code |-> status]
    ELSE IF status = -12
    THEN [raise |-> TRUE, msg |-> "errors in the method parameters", code |-> status]
    ELSE IF status < 0
    THEN [raise |-> TRUE, msg |-> "Unknown error", code |-> status]
    ELSE [raise |-> FALSE, msg |-> "", code |-> status]

\* dfgmres_get treating only negative statuses as errors
dfgmres_get_negative_only(status) ==
    IF status = -10000
    THEN [raise |-> TRUE, msg |-> "Failed to complete task", code |-> status]
    ELSE IF status = -12
    THEN [raise |-> TRUE, msg |-> "errors in the method parameters", code |-> status]
    ELSE IF status < 0
    THEN [raise |-> TRUE, msg |-> "Unknown error", code |-> status]
    ELSE [raise |-> FALSE, msg |-> "", code |-> status]

\* dfgmres_get: outcome for a native status
dfgmres_get(status) ==
    IF status = -10000
    THEN [raise |-> TRUE, msg |-> "Failed to complete task", code |-> status]
    ELSE IF status = -12
    THEN [raise |-> TRUE, msg |-> "errors in the method parameters", code |-> status]
    ELSE IF status # 0
    THEN [raise |-> TRUE, msg |-> "Unknown error", code |-> status]
    ELSE [raise |-> FALSE, msg |-> "", code |-> status]

(* -------------------- native routines (external) ---------------------- *)
Min(a, b) == IF a < b THEN a ELSE b

\* Contents of ipar after a successful native init: the library defaults.
native_init_ipar(nn) ==
    [i \in 1..IparSize |->
        CASE i - 1 = 0  -> nn
          [] i - 1 = 1  -> 6
          [] i - 1 = 2  -> 1
          [] i - 1 = 4  -> Min(150, nn)
          [] i - 1 = 5  -> 1
          [] i - 1 = 6  -> 1
          [] i - 1 = 7  -> 1
          [] i - 1 = 9  -> 1
          [] i - 1 = 14 -> Min(150, nn)
          [] OTHER      -> 0]

\* Contents of dpar after a successful native init (tolerance default is
\* abstracted to 1).
native_init_dpar == [i \in 1..DparSize |-> IF i = 1 THEN 1 ELSE 0]

\* Workspace offsets the native step may hand out with request code 1: the
\* 1-based starts of two disjoint blocks of nn elements (operand, result).
OffsetPairs(nn) ==
    {<<i, i + nn>> : i \in 1..(MaxOff - 1)} \cup {<<MaxOff + nn, MaxOff>>}

\* The native step with request code 1 stores the offsets of the operand and
\* of the result in ipar[21], ipar[22].
native_step_ipar(ip, code, off) ==
    IF code = 1
    THEN [ip EXCEPT ![21 + 1] = off[1], ![22 + 1] = off[2]]
    ELSE ip

\* ... and leaves the operand (here the vector of ones) at the input offset.
native_step_tmp(buf, nn, code, off) ==
    IF code = 1
    THEN [p \in 1..Len(buf) |-> IF p >= off[1] /\ p <= off[1] + nn - 1 THEN 1 ELSE buf[p]]
    ELSE buf

\* The native finalize writes the solution into x (here the vector of ones).
native_get_x(xx, nn, status) ==
    IF status = 0 THEN [i \in 1..nn |-> 1] ELSE xx

(* ----------------------- sparse matrix multiply ----------------------- *)
RECURSIVE DotFrom(_, _, _, _)
\* sum over j = 1..k of row[j] * buf[base0 + j]   (base0 is a 0-based start)
DotFrom(row, buf, base0, k) ==
    IF k = 0 THEN 0 ELSE DotFrom(row, buf, base0, k - 1) + row[k] * buf[base0 + k]

\* y := alpha * A * x + beta * y on the nn elements starting at the operand
\* pointers, every row computed from the buffer as it was before the call.
MvSimultaneous(alpha, mat, nn, buf, xbase0, beta, ybase0) ==
    [p \in 1..Len(buf) |->
        IF p - 1 >= ybase0 /\ p - 1 <= ybase0 + nn - 1
        THEN alpha * DotFrom(mat[p - ybase0], buf, xbase0, nn) + beta * buf[p]
        ELSE buf[p]]

RECURSIVE MvRowByRow(_, _, _, _, _, _, _, _)
\* the same, rows 1..k written one after the other into the buffer
MvRowByRow(alpha, mat, nn, buf, xbase0, beta, ybase0, k) ==
    IF k = 0 THEN buf
    ELSE LET prev == MvRowByRow(alpha, mat, nn, buf, xbase0, beta, ybase0, k - 1)
         IN  [prev EXCEPT ![ybase0 + k] =
                 alpha * DotFrom(mat[k], prev, xbase0, nn) + beta * prev[ybase0 + k]]

\* mkl_sparse_d_mv on operands given by their start inside one buffer.  The
\* routine takes the operand lengths from the matrix (nn columns, nn rows);
\* with overlapping operands the result depends on the evaluation order.
mkl_sparse_d_mv(alpha, mat, nn, buf, xbase0, beta, ybase0) ==
    { MvSimultaneous(alpha, mat, nn, buf, xbase0, beta, ybase0),
      MvRowByRow(alpha, mat, nn, buf, xbase0, beta, ybase0, nn) }

(* ----------------- FGMRESIterativeSparseSolver methods ---------------- *)
\* Python slice tmp[start:stop] of update_tmp, as 0-based [start, stop)
\* slice start taking the offset as 0-based
SliceStart_zero_based(offset) == offset
SliceStart(offset) == offset - 1
SliceStop(offset, nn) == offset + nn - 2
SliceLen(offset, nn) ==
    IF SliceStop(offset, nn) > SliceStart(offset)
    THEN SliceStop(offset, nn) - SliceStart(offset) ELSE 0

\* update_tmp overwriting instead of accumulating (scale factor 0 on the
\* existing content)
update_tmp_overwrite(ip, buf, mat, nn) ==
    LET input_matmul_offset  == ip[21 + 1]
        output_matmul_offset == ip[22 + 1]
    IN  [in   |-> input_matmul_offset,
         out  |-> output_matmul_offset,
         bufs |-> mkl_sparse_d_mv(1, mat, nn, buf,
                                  SliceStart(input_matmul_offset), 0,
                                  SliceStart(output_matmul_offset))]

\* update_tmp with the two offset slots exchanged
update_tmp_swapped(ip, buf, mat, nn) ==
    LET input_matmul_offset  == ip[22 + 1]
        output_matmul_offset == ip[21 + 1]
    IN  [in   |-> input_matmul_offset,
         out  |-> output_matmul_offset,
         bufs |-> mkl_sparse_d_mv(1, mat, nn, buf,
                                  SliceStart(input_matmul_offset), 1,
                                  SliceStart(output_matmul_offset))]

\* update_tmp: offsets read from ipar[21], ipar[22]; the possible buffers
\* after the multiply
update_tmp(ip, buf, mat, nn) ==
    LET input_matmul_offset  == ip[21 + 1]
        output_matmul_offset == ip[22 + 1]
    IN  [in   |-> input_matmul_offset,
         out  |-> output_matmul_offset,
         bufs |-> mkl_sparse_d_mv(1, mat, nn, buf,
                                  SliceStart(input_matmul_offset), 1,
                                  SliceStart(output_matmul_offset))]

\* set_initial_parameters also storing the iteration limit in the restart
\* slot ipar[14]
set_initial_parameters_sets_restart(ip, dp, mi, dbg, vb, rt, at) ==
    [ipar |-> [ip EXCEPT ![4 + 1]  = mi,
                         ![5 + 1]  = IF dbg \/ vb THEN 1 ELSE 0,
                         ![6 + 1]  = IF dbg \/ vb THEN 1 ELSE 0,
                         ![7 + 1]  = 1,
                         ![8 + 1]  = 1,
                         ![9 + 1]  = 0,
                         ![11 + 1] = 1,
                         ![14 + 1] = mi],
     dpar |-> [dp EXCEPT ![0 + 1] = rt, ![1 + 1] = at]]

\* set_initial_parameters looking at verbose only, not at the debug flag
set_initial_parameters_ignores_debug(ip, dp, mi, dbg, vb, rt, at) ==
    [ipar |-> [ip EXCEPT ![4 + 1]  = mi,
                         ![5 + 1]  = IF vb THEN 1 ELSE 0,
                         ![6 + 1]  = IF vb THEN 1 ELSE 0,
                         ![7 + 1]  = 1,
                         ![8 + 1]  = 1,
                         ![9 + 1]  = 0,
                         ![11 + 1] = 1],
     dpar |-> [dp EXCEPT ![0 + 1] = rt, ![1 + 1] = at]]

\* set_initial_parameters
set_initial_parameters(ip, dp, mi, dbg, vb, rt, at) ==
    [ipar |-> [ip EXCEPT ![4 + 1]  = mi,
                         ![5 + 1]  = IF dbg \/ vb THEN 1 ELSE 0,
                         ![6 + 1]  = IF dbg \/ vb THEN 1 ELSE 0,
                         ![7 + 1]  = 1,
                         ![8 + 1]  = 1,
                         ![9 + 1]  = 0,
                         ![11 + 1] = 1],
     dpar |-> [dp EXCEPT ![0 + 1] = rt, ![1 + 1] = at]]

\* get_solution returning x without calling dfgmres_get
get_solution_skip(status) ==
    [calls |-> 0, raise |-> FALSE]

\* get_solution: calls dfgmres_get once; raises what it raises
get_solution(status) ==
    [calls |-> 1, raise |-> dfgmres_get(status).raise]

\* loop body without the break on request code 0
solve_body_no_break_on_zero(return_value, cur, mx) ==
    IF cur > mx
    THEN [final_code |-> Some(return_value), brk |-> TRUE, warn |-> TRUE]
    ELSE [final_code |-> Some(return_value), brk |-> FALSE, warn |-> FALSE]

\* loop body warning at the iteration limit without leaving the loop
solve_body_warn_without_break(return_value, cur, mx) ==
    IF return_value = 0
    THEN [final_code |-> Some(return_value), brk |-> TRUE, warn |-> FALSE]
    ELSE IF cur > mx
    THEN [final_code |-> Some(return_value), brk |-> FALSE, warn |-> TRUE]
    ELSE [final_code |-> Some(return_value), brk |-> FALSE, warn |-> FALSE]

\* loop body without the iteration-limit check
solve_body_no_limit_check(return_value, cur, mx) ==
    IF return_value = 0
    THEN [final_code |-> Some(return_value), brk |-> TRUE, warn |-> FALSE]
    ELSE [final_code |-> Some(return_value), brk |-> FALSE, warn |-> FALSE]

\* loop body with the iteration-limit check off by one
solve_body_limit_off_by_one(return_value, cur, mx) ==
    IF return_value = 0
    THEN [final_code |-> Some(return_value), brk |-> TRUE, warn |-> FALSE]
    ELSE IF cur > mx + 1
    THEN [final_code |-> Some(return_value), brk |-> TRUE, warn |-> TRUE]
    ELSE [final_code |-> Some(return_value), brk |-> FALSE, warn |-> FALSE]

\* loop body leaving the loop on request code 2
solve_body_break_on_two(return_value, cur, mx) ==
    IF return_value = 0 \/ return_value = 2
    THEN [final_code |-> Some(return_value), brk |-> TRUE, warn |-> FALSE]
    ELSE IF cur > mx
    THEN [final_code |-> Some(return_value), brk |-> TRUE, warn |-> TRUE]
    ELSE [final_code |-> Some(return_value), brk |-> FALSE, warn |-> FALSE]

\* body of the loop of solve() for one yielded return_value
solve_body(return_value, cur, mx) ==
    IF return_value = 0
    THEN [final_code |-> Some(return_value), brk |-> TRUE, warn |-> FALSE]
    ELSE IF cur > mx
    THEN [final_code |-> Some(return_value), brk |-> TRUE, warn |-> TRUE]
    ELSE [final_code |-> Some(return_value), brk |-> FALSE, warn |-> FALSE]

\* argument gate that forgets callback_type
fgmres_rejects_no_callback_type(m, cb, cbt) ==
    IF m # None THEN TRUE
    ELSE IF cb # None THEN TRUE
    ELSE FALSE

\* fgmres: the argument gate
fgmres_rejects(m, cb, cbt) ==
    IF m # None THEN TRUE
    ELSE IF cb # None \/ cbt # None THEN TRUE
    ELSE FALSE

\* fgmres: the value returned, on the normal path and in the except clause
fgmres_return(xx, fc) == << xx, fc >>

(* --------------------- MKLIterativeSparseSolver ----------------------- *)
\* verbose is not passed by fgmres: the class default
verbose == FALSE

\* tolerances explored (abstract units)
RTols == {5}
ATols == {3}

Objects == {None, Some("object")}

\* Order of the solver set-up on entering the context: the position reached
\* when the operation at position phase has succeeded
\* (initialize_solver, then set_initial_parameters, then check_solver, then
\* the iteration loop).
enter_next(phase) ==
    CASE phase = "constructed" -> "initialized"
      [] phase = "initialized" -> "configured"
      [] phase = "configured"  -> "iterating"

\* The iterator's step counts the step before calling the native routine ...
next_iter(cur) == cur + 1

\* ... and dispatches on the request code it is about to yield: multiply on
\* 1, extract the solution on 0, nothing otherwise.
next_dispatch(return_code) ==
    [multiply |-> return_code = 1, extract |-> return_code = 0]

Init ==
    /\ pc = "call"
    /\ M \in Objects
    /\ callback \in Objects
    /\ callback_type \in Objects
    /\ max_iter \in 0..MaxIter
    /\ r_tol \in RTols
    /\ a_tol \in ATols
    /\ MKL_DEBUG \in BOOLEAN
    /\ n \in 1..MaxN
    /\ A \in Matrices(n)
    /\ instance = FALSE
    /\ x = None
    /\ ipar = None
    /\ dpar = None
    /\ tmp = None
    /\ current_iter = 0
    /\ final_code = None
    /\ last_status = None
    /\ outcome = "NONE"
    /\ result = None
    /\ tmp0 = None
    /\ mv_calls = 0
    /\ trace = << >>

\* fgmres up to the construction of the solver: the argument gate raises
\* NotImplementedError, or the solver instance is created.
Fgmres ==
    /\ pc = "call"
    /\ IF fgmres_rejects(M, callback, callback_type)
       THEN /\ pc' = "rejected"
            /\ outcome' = "NotImplementedError"
            /\ instance' = instance
       ELSE /\ pc' = "constructed"
            /\ outcome' = outcome
            /\ instance' = TRUE
    /\ UNCHANGED << M, callback, callback_type, max_iter, r_tol, a_tol, MKL_DEBUG,
                    n, A, x, ipar, dpar, tmp, current_iter, final_code,
                    last_status, result, tmp0, mv_calls, trace >>

\* initialize_solver: dfgmres_init creates x and the workspace arrays, calls
\* the native init and raises on a nonzero status (the solver's fields are
\* assigned only when it returns).
InitializeSolver ==
    /\ pc = "constructed"
    /\ \E status \in InitStatuses :
         /\ trace' = Append(trace, Ev("init", status, 0, 0))
         /\ IF dfgmres_init(status).raise
            THEN /\ pc' = "raised"
                 /\ outcome' = "RuntimeError"
                 /\ UNCHANGED << x, ipar, dpar, tmp >>
            ELSE /\ pc' = enter_next(pc)
                 /\ outcome' = outcome
                 /\ x' = Zeros(n)
                 /\ ipar' = native_init_ipar(n)
                 /\ dpar' = native_init_dpar
                 /\ tmp' = Zeros(TmpSize(n))
    /\ UNCHANGED << M, callback, callback_type, max_iter, r_tol, a_tol, MKL_DEBUG,
                    n, A, instance, current_iter, final_code, last_status,
                    result, tmp0, mv_calls >>

\* set_initial_parameters, after init and before check
SetInitialParameters ==
    /\ pc = "initialized"
    /\ LET new == set_initial_parameters(ipar, dpar, max_iter, MKL_DEBUG, verbose,
                                         r_tol, a_tol)
       IN  /\ ipar' = new.ipar
           /\ dpar' = new.dpar
    /\ trace' = Append(trace, Ev("policy", 0, 0, 0))
    /\ pc' = enter_next(pc)
    /\ UNCHANGED << M, callback, callback_type, max_iter, r_tol, a_tol, MKL_DEBUG,
                    n, A, instance, x, tmp, current_iter, final_code, last_status,
                    outcome, result, tmp0, mv_calls >>

\* check_solver: dfgmres_check raises on -1100, warns on -1001 / -1011
CheckSolver ==
    /\ pc = "configured"
    /\ \E status \in CheckStatuses :
         LET r == dfgmres_check(status)
             called == Append(trace, Ev("check", status, 0, 0))
         IN  /\ trace' = IF r.warn
                         THEN Append(called, Ev("RuntimeWarning", status, 0, 0))
                         ELSE called
             /\ IF r.raise
                THEN /\ pc' = "raised"
                     /\ outcome' = "RuntimeError"
                ELSE /\ pc' = enter_next(pc)
                     /\ outcome' = outcome
    /\ UNCHANGED << M, callback, callback_type, max_iter, r_tol, a_tol, MKL_DEBUG,
                    n, A, instance, x, ipar, dpar, tmp, current_iter, final_code,
                    last_status, result, tmp0, mv_calls >>

\* One pass of the loop of solve(): the iterator's step (count the step, call
\* the native step through dfgmres, multiply on request code 1, extract on
\* request code 0), then the loop body.  A RuntimeError raised inside the
\* step leaves solve() and is caught by the except clause of fgmres.
SolveStep ==
    /\ pc = "iterating"
    /\ current_iter <= MaxIter + 2
    /\ \E status \in StepStatuses :
       \E off \in (IF status = 1 THEN OffsetPairs(n) ELSE {<<0, 0>>}),
          gstatus \in (IF status = 0 THEN GetStatuses ELSE {0}) :
         LET stepped == Append(trace, Ev("step", status, off[1], off[2]))
             ip1  == native_step_ipar(ipar, status, off)
             buf1 == native_step_tmp(tmp, n, status, off)
             cur  == next_iter(current_iter)
             todo == next_dispatch(status)
         IN
         /\ current_iter' = cur
         /\ last_status' = Some(status)
         /\ ipar' = ip1
         /\ IF dfgmres(status).raise
            THEN /\ pc' = "caught"
                 /\ outcome' = "FAILED"
                 /\ trace' = stepped
                 /\ UNCHANGED << x, tmp, final_code >>
            ELSE IF todo.multiply
            THEN LET mv   == update_tmp(ip1, buf1, A, n)
                     body == solve_body(status, cur, max_iter)
                     multiplied == Append(stepped, Ev("mv", 0, mv.in, mv.out))
                 IN  /\ tmp' \in mv.bufs
                     /\ final_code' = body.final_code
                     /\ trace' = IF body.warn
                                 THEN Append(multiplied, Ev("ConvergenceWarning", cur, 0, 0))
                                 ELSE multiplied
                     /\ pc' = IF body.brk THEN "solved" ELSE "iterating"
                     /\ outcome' = IF body.warn THEN "LIMIT_REACHED" ELSE outcome
                     /\ x' = x
            ELSE IF todo.extract
            THEN LET g == get_solution(gstatus)
                     got == IF g.calls = 1
                            THEN Append(stepped, Ev("get", gstatus, 0, 0))
                            ELSE stepped
                 IN  IF g.calls = 1 /\ g.raise
                     THEN /\ pc' = "caught"
                          /\ outcome' = "FAILED"
                          /\ trace' = got
                          /\ UNCHANGED << x, tmp, final_code >>
                     ELSE LET body == solve_body(status, cur, max_iter)
                          IN  /\ x' = IF g.calls = 1 THEN native_get_x(x, n, gstatus) ELSE x
                              /\ tmp' = buf1
                              /\ final_code' = body.final_code
                              /\ trace' = IF body.warn
                                          THEN Append(got, Ev("ConvergenceWarning", cur, 0, 0))
                                          ELSE got
                              /\ pc' = IF body.brk THEN "solved" ELSE "iterating"
                              /\ outcome' = IF body.warn THEN "LIMIT_REACHED"
                                            ELSE IF body.brk THEN "CONVERGED"
                                            ELSE outcome
            ELSE LET body == solve_body(status, cur, max_iter)
                 IN  /\ final_code' = body.final_code
                     /\ trace' = IF body.warn
                                 THEN Append(stepped, Ev("ConvergenceWarning", cur, 0, 0))
                                 ELSE stepped
                     /\ pc' = IF body.brk THEN "solved" ELSE "iterating"
                     /\ outcome' = IF body.warn THEN "LIMIT_REACHED" ELSE outcome
                     /\ UNCHANGED << x, tmp >>
    /\ UNCHANGED << M, callback, callback_type, max_iter, r_tol, a_tol, MKL_DEBUG,
                    n, A, instance, dpar, result, tmp0, mv_calls >>

\* solve() returned x: fgmres returns (x, final_code) and the context exits
FgmresReturn ==
    /\ pc = "solved"
    /\ result' = fgmres_return(x, final_code)
    /\ trace' = Append(trace, Ev("exit", 0, 0, 0))
    /\ pc' = "returned"
    /\ UNCHANGED << M, callback, callback_type, max_iter, r_tol, a_tol, MKL_DEBUG,
                    n, A, instance, x, ipar, dpar, tmp, current_iter, final_code,
                    last_status, outcome, tmp0, mv_calls >>

\* the except clause returning without the context exit having run
FgmresExcept_no_exit ==
    /\ pc = "caught"
    /\ result' = fgmres_return(x, final_code)
    /\ pc' = "returned"
    /\ UNCHANGED << M, callback, callback_type, max_iter, r_tol, a_tol, MKL_DEBUG,
                    n, A, instance, x, ipar, dpar, tmp, current_iter, final_code,
                    last_status, outcome, tmp0, mv_calls, trace >>

\* except RuntimeError: fgmres returns (solver.x, solver.final_code) and the
\* context exits
FgmresExcept ==
    /\ pc = "caught"
    /\ result' = fgmres_return(x, final_code)
    /\ trace' = Append(trace, Ev("exit", 0, 0, 0))
    /\ pc' = "returned"
    /\ UNCHANGED << M, callback, callback_type, max_iter, r_tol, a_tol, MKL_DEBUG,
                    n, A, instance, x, ipar, dpar, tmp, current_iter, final_code,
                    last_status, outcome, tmp0, mv_calls >>

Next ==
    \/ Fgmres
    \/ InitializeSolver
    \/ SetInitialParameters
    \/ CheckSolver
    \/ SolveStep
    \/ FgmresReturn
    \/ FgmresExcept

Spec == Init /\ [][Next]_vars

\* The code is sequential and every native call returns: a step that is
\* possible is eventually taken.
FairSpec == Spec /\ WF_vars(Next)

(* --------------- specification of the multiply in isolation ------------ *)
MaxMvCalls == 2     \* update_tmp calls applied to one buffer

\* buffers of length len whose first k elements are 0 or 1, the rest 0
Buffers(len, k) ==
    { [p \in 1..len |-> IF p <= k THEN f[p] ELSE 0] : f \in [1..k -> {0, 1}] }

InitMV ==
    /\ pc = "multiply"
    /\ M = None /\ callback = None /\ callback_type = None
    /\ max_iter = 0
    /\ r_tol \in RTols
    /\ a_tol \in ATols
    /\ MKL_DEBUG = FALSE
    /\ n \in 1..MaxN
    /\ A \in Matrices(n)
    /\ instance = TRUE
    /\ x = Zeros(n)
    /\ \E i \in 1..MaxOff, o \in 1..MaxOff :
         ipar = [native_init_ipar(n) EXCEPT ![21 + 1] = i, ![22 + 1] = o]
    /\ dpar = native_init_dpar
    /\ tmp \in Buffers(TmpSize(n), MaxOff + n - 1)
    /\ tmp0 = tmp
    /\ current_iter = 0
    /\ final_code = None
    /\ last_status = None
    /\ outcome = "NONE"
    /\ result = None
    /\ mv_calls = 0
    /\ trace = << >>

\* one call of update_tmp
UpdateTmp ==
    /\ pc = "multiply"
    /\ mv_calls < MaxMvCalls
    /\ LET mv == update_tmp(ipar, tmp, A, n)
       IN  /\ tmp' \in mv.bufs
           /\ trace' = Append(trace, Ev("mv", 0, mv.in, mv.out))
    /\ mv_calls' = mv_calls + 1
    /\ UNCHANGED << pc, M, callback, callback_type, max_iter, r_tol, a_tol, MKL_DEBUG,
                    n, A, instance, x, ipar, dpar, current_iter, final_code,
                    last_status, outcome, result, tmp0 >>

NextMV == UpdateTmp

SpecMV == InitMV /\ [][NextMV]_vars

(* ------------------------------ history -------------------------------- *)
Indices(op) == {i \in DOMAIN trace : trace[i].op = op}
Count(op) == Cardinality(Indices(op))
NativeCalls == Indices("init") \cup Indices("check") \cup Indices("step")
                 \cup Indices("get") \cup Indices("mv")
StepsWith(code) == {i \in Indices("step") : trace[i].a = code}
NonFatalNonzero == {1, 2, 3, -1}

\* the nn elements of buf starting at the 1-based offset
Region(buf, offset, nn) == [k \in 1..nn |-> buf[offset + k - 1]]
\* A * v
MatVec(mat, v, nn) == [i \in 1..nn |-> DotFrom(mat[i], v, 0, nn)]

(* ------------------------------- claims -------------------------------- *)

\* C1: a call with a non-None M, callback or callback_type ends in
\* NotImplementedError and never gets past the argument gate: no native
\* routine has been called, no solver instance exists and no workspace array
\* (x, ipar, dpar, tmp) has been created.
C1_RejectedBeforeAnyNativeCall ==
    (M # None \/ callback # None \/ callback_type # None) =>
        /\ pc \in {"call", "rejected"}
        /\ (pc = "rejected" => outcome = "NotImplementedError")
        /\ NativeCalls = {}
        /\ trace = << >>
        /\ ~instance
        /\ x = None /\ ipar = None /\ dpar = None /\ tmp = None

C1_Witness ==
    /\ pc = "rejected"
    /\ outcome = "NotImplementedError"
    /\ M = None /\ callback = None /\ callback_type # None

GetStatusOfRun ==
    IF Indices("get") = {} THEN None
    ELSE Some(trace[CHOOSE i \in Indices("get") : TRUE].a)

C3_FatalCodeReturned ==
    (pc = "returned" /\ last_status # None /\ dfgmres(last_status[1]).raise) =>
        result = << x, last_status >>

\* C4: when the loop exits at the iteration-limit check (the last request
\* code was not 0) nothing is raised, exactly one ConvergenceWarning was
\* emitted and it names current_iter, the loop has stopped, and fgmres
\* returns (x, final_code) with final_code the request code of the last step.
C4_LimitReached ==
    /\ (outcome = "LIMIT_REACHED") =>
           /\ pc \in {"solved", "returned"}
           /\ current_iter > max_iter
           /\ last_status # Some(0)
           /\ Count("ConvergenceWarning") = 1
           /\ \A i \in Indices("ConvergenceWarning") :
                  /\ trace[i].a = current_iter
                  /\ \A j \in Indices("step") : j < i
           /\ final_code = last_status
           /\ (pc = "returned" => result = << x, last_status >>)
    /\ (Count("ConvergenceWarning") > 0 => outcome = "LIMIT_REACHED")

C4_Witness ==
    /\ pc = "returned"
    /\ outcome = "LIMIT_REACHED"
    /\ max_iter = 1
    /\ Count("step") = 2
    /\ result = << x, Some(-1) >>

\* C5: solve() performs at most max_iter + 1 steps, and a solve that has
\* entered the loop always reaches a terminal state CONVERGED, LIMIT_REACHED
\* or FAILED.
C5_LoopFinite ==
    /\ [](Count("step") <= max_iter + 1 /\ Count("step") = current_iter)
    /\ ((pc = "iterating") ~> (outcome \in {"CONVERGED", "LIMIT_REACHED", "FAILED"}))

C5_Witness ==
    /\ max_iter = MaxIter
    /\ Count("step") = max_iter + 1
    /\ outcome = "LIMIT_REACHED"

\* C6: with max_iter = 0 and a first step that returns a non-fatal request
\* code other than 0, the ConvergenceWarning is emitted at the first loop
\* check, after exactly one step, and the run ends in LIMIT_REACHED without a
\* fatal error.
C6_ZeroCap ==
    (max_iter = 0 /\ Indices("step") # {}
       /\ \A i \in Indices("step") :
            (\A j \in Indices("step") : i <= j) => trace[i].a \in NonFatalNonzero) =>
        /\ Count("step") = 1
        /\ Count("ConvergenceWarning") = 1
        /\ \A i \in Indices("ConvergenceWarning") : trace[i].a = 1
        /\ outcome = "LIMIT_REACHED"
        /\ pc \in {"solved", "returned"}
        /\ (pc = "returned" => result = << x, last_status >>)

C6_Witness ==
    /\ max_iter = 0
    /\ pc = "returned"
    /\ outcome = "LIMIT_REACHED"
    /\ Count("step") = 1
    /\ last_status = Some(2)

\* C7 as stated: whenever the step returns request code -1 a
\* ConvergenceWarning is emitted, the loop exits and the step routine is not
\* invoked again.
C7_MinusOneEndsLoop ==
    \A i \in StepsWith(-1) :
        /\ \A j \in Indices("step") : j <= i
        /\ Count("ConvergenceWarning") >= 1
        /\ pc \in {"solved", "returned"}

\* operand and result of the multiply specification: the n elements at the
\* 1-based offsets of ipar[21] and ipar[22]
MvInput(buf) == Region(buf, ipar[21 + 1], n)
MvOutput(buf) == Region(buf, ipar[22 + 1], n)

\* two calls with the same offsets, the operand unchanged, the result block
\* all zeros before the first call
C8_TwoCallsOnZeroedOutput ==
    /\ pc = "multiply"
    /\ mv_calls = 2
    /\ MvInput(tmp) = MvInput(tmp0)
    /\ MvOutput(tmp0) = Zeros(n)

\* C8 as stated: after two such calls the output block equals A.v
C8_Original ==
    C8_TwoCallsOnZeroedOutput => MvOutput(tmp) = MatVec(A, MvInput(tmp0), n)

\* C8 amended: after two such calls the output block equals 2 * (A.v): each
\* call adds A.v to the block.
C8_TwoCallsAccumulateTwice ==
    C8_TwoCallsOnZeroedOutput =>
        MvOutput(tmp) = [i \in 1..n |-> 2 * MatVec(A, MvInput(tmp0), n)[i]]

C8_Witness ==
    /\ C8_TwoCallsOnZeroedOutput
    /\ n = 2
    /\ MatVec(A, MvInput(tmp0), n) # Zeros(n)
    /\ MvOutput(tmp) # MatVec(A, MvInput(tmp0), n)

\* C9: every step that returned request code 1 is followed, before any
\* further step, by exactly one update_tmp using the offsets the parameter
\* vector holds at that moment, and update_tmp is invoked at no other point.
C9_MultiplyOnRequestOnly ==
    /\ \A i \in Indices("mv") :
           /\ i > 1
           /\ trace[i - 1].op = "step"
           /\ trace[i - 1].a = 1
           /\ trace[i].b = trace[i - 1].b
           /\ trace[i].c = trace[i - 1].c
    /\ \A i \in StepsWith(1) : i < Len(trace) /\ trace[i + 1].op = "mv"
    /\ Count("mv") = Cardinality(StepsWith(1))
    /\ (last_status = Some(1) =>
           \A i \in Indices("mv") :
               (\A j \in Indices("mv") : j <= i) =>
                   trace[i].b = ipar[21 + 1] /\ trace[i].c = ipar[22 + 1])

C9_Witness ==
    /\ Count("mv") = 2
    /\ StepsWith(2) # {}
    /\ \E i, j \in Indices("mv") : trace[i].b # trace[j].b
    /\ pc = "returned"

\* C10: in a run whose step returned request code 0 the finalize routine is
\* invoked exactly once, directly after that last step and before fgmres
\* returns; in a run that ends with a fatal step code it is never invoked.
C10_FinalizeOnceOnConvergence ==
    /\ (last_status = Some(0) =>
           /\ Count("get") = 1
           /\ \A i \in Indices("get") :
                  /\ i > 1
                  /\ trace[i - 1].op = "step"
                  /\ trace[i - 1].a = 0
                  /\ \A j \in Indices("step") : j < i
                  /\ \A j \in Indices("exit") : i < j)
    /\ (last_status # Some(0) => Count("get") = 0)
    /\ (result # None /\ outcome = "CONVERGED" => Count("get") = 1)
    /\ (last_status # None /\ dfgmres(last_status[1]).raise =>
           outcome = "FAILED" /\ Count("get") = 0)

C10_Witness ==
    /\ pc = "returned"
    /\ outcome = "CONVERGED"
    /\ Count("get") = 1
    /\ Count("step") = 3
    /\ result = << x, Some(0) >>

\* the operand block and the result block of the multiply do not overlap
MvDisjoint ==
    \/ ipar[21 + 1] + n <= ipar[22 + 1]
    \/ ipar[22 + 1] + n <= ipar[21 + 1]

\* C11: one call of update_tmp accumulates: with the offsets read as 1-based
\* values from ipar[21] (operand) and ipar[22] (result), the result block
\* afterwards equals its prior content plus A.v, and nothing outside the
\* result block changes (operand and result blocks not overlapping).
C11_AccumulateNotOverwrite ==
    (pc = "multiply" /\ mv_calls = 1 /\ MvDisjoint) =>
        /\ MvOutput(tmp) =
              [i \in 1..n |-> MvOutput(tmp0)[i] + MatVec(A, MvInput(tmp0), n)[i]]
        /\ \A p \in 1..Len(tmp) :
              (p < ipar[22 + 1] \/ p > ipar[22 + 1] + n - 1) => tmp[p] = tmp0[p]
        /\ trace = << Ev("mv", 0, ipar[21 + 1], ipar[22 + 1]) >>

C11_Witness ==
    /\ pc = "multiply"
    /\ mv_calls = 1
    /\ MvDisjoint
    /\ n = 2
    /\ MvOutput(tmp0) = [i \in 1..n |-> 1]
    /\ MatVec(A, MvInput(tmp0), n) = << 2, 1 >>
    /\ MvOutput(tmp) = << 3, 2 >>

\* C12 as stated: the two slices update_tmp hands to the multiply each hold
\* exactly n elements, 0-based positions offset-1 .. offset+n-2.
C12_SlicesHoldNElements ==
    (pc = "multiply" /\ mv_calls >= 1) =>
        /\ SliceStart(ipar[21 + 1]) = ipar[21 + 1] - 1
        /\ SliceStart(ipar[22 + 1]) = ipar[22 + 1] - 1
        /\ SliceLen(ipar[21 + 1], n) = n
        /\ SliceLen(ipar[22 + 1], n) = n

(* ------------ specification of the four wrappers in isolation --------- *)
MaxStatus == 15     \* native statuses -MaxStatus .. MaxStatus are explored

\* native statuses handed to a wrapper: a range around 0 and the
\* distinguished codes
WrapStatuses == (-MaxStatus..MaxStatus) \cup {-10000, -1100, -1001, -1011}
Wrappers == {"dfgmres_init", "dfgmres_check", "dfgmres", "dfgmres_get"}

\* pc = "wrapper": outcome names the wrapper about to be called and
\* last_status holds the status the native routine reports to it;
\* pc = "called": result holds what the wrapper did.
InitWrap ==
    /\ pc = "wrapper"
    /\ outcome \in Wrappers
    /\ \E status \in WrapStatuses : last_status = Some(status)
    /\ M = None /\ callback = None /\ callback_type = None
    /\ max_iter = 0
    /\ r_tol \in RTols
    /\ a_tol \in ATols
    /\ MKL_DEBUG = FALSE
    /\ n = 1
    /\ A = DiagMatrix(1)
    /\ instance = FALSE
    /\ x = None /\ ipar = None /\ dpar = None /\ tmp = None /\ tmp0 = None
    /\ current_iter = 0
    /\ final_code = None
    /\ result = None
    /\ mv_calls = 0
    /\ trace = << >>

\* the wrapper is called, the native routine reporting last_status
CallWrapper ==
    /\ pc = "wrapper"
    /\ result' = CASE outcome = "dfgmres_init"  -> dfgmres_init(last_status[1])
                   [] outcome = "dfgmres_check" -> dfgmres_check(last_status[1])
                   [] outcome = "dfgmres"       -> dfgmres(last_status[1])
                   [] outcome = "dfgmres_get"   -> dfgmres_get(last_status[1])
    /\ pc' = "called"
    /\ UNCHANGED << M, callback, callback_type, max_iter, r_tol, a_tol, MKL_DEBUG,
                    n, A, instance, x, ipar, dpar, tmp, current_iter, final_code,
                    last_status, outcome, tmp0, mv_calls, trace >>

NextWrap == CallWrapper

SpecWrap == InitWrap /\ [][NextWrap]_vars

\* C13: dfgmres raises RuntimeError exactly for the negative statuses other
\* than -1, with a message of its own for -10, -11 and -12 and "Unknown error"
\* with the code for any other; for -1 and every status >= 0 it raises
\* nothing and returns the status unchanged.
C13_StepWrapperStatusMapping ==
    (pc = "called" /\ outcome = "dfgmres") =>
        LET status == last_status[1] IN
        /\ result.raise <=> (status < 0 /\ status # -1)
        /\ result.code = status
        /\ (status = -10 => result.msg = "divide by zero")
        /\ (status = -11 => result.msg = "Infinite cycle")
        /\ (status = -12 => result.msg = "errors in the method parameters")
        /\ (status < -1 /\ status \notin {-10, -11, -12} => result.msg = "Unknown error")
        /\ (status = -1 \/ status >= 0 => ~result.raise /\ result.msg = "")

C13_Witness ==
    /\ pc = "called"
    /\ outcome = "dfgmres"
    /\ last_status = Some(-1)
    /\ ~result.raise
    /\ result.code = -1

\* C17: dfgmres_check raises only for status -1100; for -1001 and -1011 it
\* emits a RuntimeWarning, raises nothing and returns the status; for every
\* other status it returns the status with neither error nor warning.
C17_CheckWrapperStatusMapping ==
    (pc = "called" /\ outcome = "dfgmres_check") =>
        LET status == last_status[1] IN
        /\ result.raise <=> status = -1100
        /\ result.warn <=> status \in {-1001, -1011}
        /\ ~(result.raise /\ result.warn)
        /\ (~result.raise => result.code = status)

C17_Witness ==
    /\ pc = "called"
    /\ outcome = "dfgmres_check"
    /\ last_status = Some(-1011)
    /\ result.warn
    /\ ~result.raise
    /\ result.code = -1011

\* C18: dfgmres_init and dfgmres_get raise RuntimeError for every nonzero
\* status (own message for -10000, and for -12 in dfgmres_get, "Unknown
\* error" with the code otherwise) and return a result only for status 0.
C18_InitAndGetNonzeroIsFatal ==
    (pc = "called" /\ outcome \in {"dfgmres_init", "dfgmres_get"}) =>
        LET status == last_status[1] IN
        /\ result.raise <=> status # 0
        /\ result.code = status
        /\ (status = -10000 => result.msg = "Failed to complete task")
        /\ (status = -12 /\ outcome = "dfgmres_get" =>
               result.msg = "errors in the method parameters")
        /\ (status = -12 /\ outcome = "dfgmres_init" => result.msg = "Unknown error")
        /\ (status \notin {0, -10000, -12} => result.msg = "Unknown error")
        /\ (status = 0 => result.msg = "")

C18_Witness ==
    /\ pc = "called"
    /\ outcome = "dfgmres_get"
    /\ last_status = Some(3)
    /\ result.raise
    /\ result.msg = "Unknown error"

\* C14: a step that returns request code 2 or 3 makes the driver do nothing:
\* no multiply, no finalize, no error, ipar / dpar / tmp / x unchanged; the
\* loop goes on to the next step unless the iteration-limit check ends it.
C14_PassThroughOnTwoAndThree ==
    [][ (current_iter' # current_iter /\ last_status' \in {Some(2), Some(3)}) =>
            LET stepped == Append(trace, Ev("step", last_status'[1], 0, 0)) IN
            /\ x' = x /\ ipar' = ipar /\ dpar' = dpar /\ tmp' = tmp
            /\ final_code' = last_status'
            /\ outcome' # "FAILED"
            /\ IF current_iter' > max_iter
               THEN /\ pc' = "solved"
                    /\ trace' = Append(stepped,
                                       Ev("ConvergenceWarning", current_iter', 0, 0))
               ELSE /\ pc' = "iterating"
                    /\ trace' = stepped ]_vars

C14_Witness ==
    /\ pc = "iterating"
    /\ last_status = Some(3)
    /\ Count("step") = 2
    /\ StepsWith(2) # {}
    /\ Count("mv") = 0 /\ Count("get") = 0

\* C15: the protocol order is init, set_initial_parameters, check, first
\* step: set_initial_parameters runs only after the native init returned
\* status 0 and never after a step, and no step is invoked before check has
\* returned without the fatal status.
C15_ProtocolOrder ==
    /\ Count("init") <= 1 /\ Count("policy") <= 1 /\ Count("check") <= 1
    /\ \A p \in Indices("policy") :
           /\ \E i \in Indices("init") : i < p /\ trace[i].a = 0
           /\ \A s \in Indices("step") : p < s
    /\ \A c \in Indices("check") : \E p \in Indices("policy") : p < c
    /\ \A s \in Indices("step") :
           \E c \in Indices("check") : c < s /\ trace[c].a # -1100
    /\ (pc = "iterating" => Count("check") = 1)

C15_Witness ==
    /\ Count("step") = 2
    /\ trace[1].op = "init" /\ trace[2].op = "policy" /\ trace[3].op = "check"
    /\ trace[3].a = -1001
    /\ trace[4].op = "RuntimeWarning"
    /\ trace[5].op = "step"

ConfigIpar == {4, 5, 6, 7, 8, 9, 11}
ConfigDpar == {0, 1}

\* C16: the driver writes ipar only at the configuration indices 4, 5, 6, 7,
\* 8, 9, 11 and dpar only at 0 and 1, and only in set_initial_parameters; in
\* the solve loop (update_tmp included) and afterwards ipar[21], ipar[22] and
\* every other slot keep the value the native routine left there.
C16_DriverWritesOnlyConfigSlots ==
    [][ /\ (pc = "initialized" /\ pc' # pc) =>
               /\ \A i \in (0..(IparSize - 1)) \ ConfigIpar : ipar'[i + 1] = ipar[i + 1]
               /\ \A i \in (0..(DparSize - 1)) \ ConfigDpar : dpar'[i + 1] = dpar[i + 1]
        /\ (pc = "iterating" /\ current_iter' # current_iter) =>
               /\ dpar' = dpar
               /\ \A i \in 0..(IparSize - 1) :
                      ipar'[i + 1] # ipar[i + 1] =>
                          /\ i \in {21, 22}
                          /\ last_status' = Some(1)
               /\ last_status' = Some(1) =>
                      /\ ipar'[21 + 1] = trace'[Len(trace) + 1].b
                      /\ ipar'[22 + 1] = trace'[Len(trace) + 1].c
        /\ (pc \in {"configured", "solved", "caught"}) =>
               ipar' = ipar /\ dpar' = dpar ]_vars

C16_Witness ==
    /\ pc = "returned"
    /\ Count("policy") = 1
    /\ Count("mv") = 2
    /\ ipar[4 + 1] = max_iter
    /\ ipar[14 + 1] = native_init_ipar(n)[14 + 1]
    /\ ipar[21 + 1] # 0

\* C19: once set_initial_parameters has run, ipar[4] = max_iter, ipar[5] =
\* ipar[6] = 1 if debug or verbose is on and 0 otherwise, ipar[8] = 1,
\* ipar[9] = 0, dpar[0] = r_tol, dpar[1] = a_tol, and running it again with
\* the same configuration changes nothing.
C19_ParameterPolicy ==
    (Count("policy") = 1) =>
        /\ ipar[4 + 1] = max_iter
        /\ ipar[5 + 1] = (IF MKL_DEBUG \/ verbose THEN 1 ELSE 0)
        /\ ipar[6 + 1] = (IF MKL_DEBUG \/ verbose THEN 1 ELSE 0)
        /\ ipar[8 + 1] = 1
        /\ ipar[9 + 1] = 0
        /\ dpar[0 + 1] = r_tol
        /\ dpar[1 + 1] = a_tol
        /\ set_initial_parameters(ipar, dpar, max_iter, MKL_DEBUG, verbose,
                                  r_tol, a_tol) = [ipar |-> ipar, dpar |-> dpar]

C19_Witness ==
    /\ pc = "configured"
    /\ MKL_DEBUG
    /\ max_iter = 2
    /\ ipar[4 + 1] = 2 /\ ipar[5 + 1] = 1 /\ ipar[6 + 1] = 1
    /\ dpar[0 + 1] # native_init_dpar[0 + 1]

\* C20: once the solver context has been entered its exit runs exactly once
\* on every path out of fgmres (convergence, iteration-limit break, fatal
\* RuntimeError of a step): fgmres never returns without the exit having
\* run, and every entered run gets there.
C20_ContextExitsExactlyOnce ==
    /\ [](/\ Count("exit") <= 1
          /\ (pc = "returned" <=> Count("exit") = 1)
          /\ (result # None => Count("exit") = 1 /\ trace[Len(trace)].op = "exit")
          /\ (Count("exit") = 1 => Count("check") = 1 /\ outcome # "RuntimeError"))
    /\ ((pc = "iterating") ~> (Count("exit") = 1 /\ result # None))

C20_Witness ==
    /\ pc = "returned"
    /\ outcome = "FAILED"
    /\ last_status = Some(-11)
    /\ Count("exit") = 1
    /\ trace[Len(trace)].op = "exit"

====
